---- MODULE Spec2Model ----
(***************************************************************************)
(* The aggregation core of the dashboard: the useMemo computations of      *)
(* ReachSection.tsx (totalReachByBrand), of the SentimentAnalysis          *)
(* component held in the same file (hasData,                               *)
(* comparativeAvgSentimentOverTimeData, sentimentDistributionData) and of  *)
(* HashtagSection.tsx (hasData, unifiedChartData).                         *)
(*                                                                         *)
(* Representation of JavaScript values:                                    *)
(*   - an optional field is a sequence of length at most one: << >> is     *)
(*     undefined, <<v>> is the value v;                                    *)
(*   - a timestamp value is a record [k, hi, lo, s]: k = "number" holds    *)
(*     the non-negative integer hi * 10^6 + lo (two limbs, since epoch     *)
(*     milliseconds do not fit 32 bits), k = "string" holds the text s;    *)
(*   - a Date is [nan, hi, lo]: invalid, or hi * 10^6 + lo milliseconds;   *)
(*   - a sentimentScore is an integer counting tenths (5 is 0.5); a mean   *)
(*     is the reduced fraction num/den of tenths, or null.                 *)
(***************************************************************************)
EXTENDS Integers, Sequences, FiniteSets, TLC

VARIABLES platform, selectedBrands, posts, reachChart, sentimentChart, distribution,
          socialData, unifiedChart, dateInputs, dayKeys

vars == <<platform, selectedBrands, posts, reachChart, sentimentChart, distribution,
          socialData, unifiedChart, dateInputs, dayKeys>>

----------------------------------------------------------------------------
(* Bounds of the model *)

\* the largest number of posts in the whole dataset
MaxPosts == 2

\* the largest number of (platform, brand) entries of the social data that
\* hold posts
MaxEntries == 2

----------------------------------------------------------------------------
(* JavaScript values *)

Undefined == << >>

IsNumber(x) == Len(x) = 1

\* truthiness of an optional number: undefined and 0 are falsy
TruthyNum(x) == Len(x) = 1 /\ x[1] # 0

\* truthiness of an optional string: undefined and '' are falsy
TruthyStr(x) == Len(x) = 1 /\ x[1] # ""

NumTs(h, l) == <<[k |-> "number", hi |-> h, lo |-> l, s |-> ""]>>

StrTs(str) == <<[k |-> "string", hi |-> 0, lo |-> 0, s |-> str]>>

\* truthiness of an optional timestamp: undefined, 0 and '' are falsy
TruthyTs(x) ==
    /\ Len(x) = 1
    /\ IF x[1].k = "number" THEN x[1].hi # 0 \/ x[1].lo # 0 ELSE x[1].s # ""

----------------------------------------------------------------------------
(* Date *)

InvalidDate == [nan |-> TRUE, hi |-> 0, lo |-> 0]

MsDate(h, l) == [nan |-> FALSE, hi |-> h, lo |-> l]

\* Date.parse of the timestamp strings of the model's posts
DateParse(str) ==
    CASE str = "2023-12-31T23:30:00-05:00" -> MsDate(1704083, 400000)
      [] str = "2024-01-02T08:00:00Z" -> MsDate(1704182, 400000)
      [] OTHER -> InvalidDate

\* the threshold at 1E9
BelowThresholdE9(v) == v.hi < 1000

\* dateInput < 1E12
BelowThreshold(v) == v.hi < 1000000

\* dateInput * 1000
TimesThousand(v) ==
    [hi |-> v.hi * 1000 + (v.lo * 1000) \div 1000000, lo |-> (v.lo * 1000) % 1000000]

\* floor(ms / 86400000): the days since the epoch
DayNumber(date) ==
    10 * (date.hi \div 864) + (10 * (date.hi % 864) + date.lo \div 100000) \div 864

\* the proleptic Gregorian calendar date of a day number
CivilFromDays(days) ==
    LET z == days + 719468
        era == z \div 146097
        doe == z - era * 146097
        yoe == (doe - doe \div 1460 + doe \div 36524 - doe \div 146096) \div 365
        doy == doe - (365 * yoe + yoe \div 4 - yoe \div 100)
        mp == (5 * doy + 2) \div 153
        dd == doy - (153 * mp + 2) \div 5 + 1
        mm == IF mp < 10 THEN mp + 3 ELSE mp - 9
        yy == yoe + era * 400 + (IF mm <= 2 THEN 1 ELSE 0)
    IN [y |-> yy, m |-> mm, d |-> dd]

\* the day number of a calendar date
DaysFromCivil(key) ==
    LET yy == IF key.m <= 2 THEN key.y - 1 ELSE key.y
        era == yy \div 400
        yoe == yy - era * 400
        mp == IF key.m > 2 THEN key.m - 3 ELSE key.m + 9
        doy == (153 * mp + 2) \div 5 + key.d - 1
        doe == yoe * 365 + yoe \div 4 - yoe \div 100 + doy
    IN era * 146097 + doe - 719468

\* the result '' of formatDateForGrouping
EmptyKey == [y |-> 0, m |-> 0, d |-> 0, err |-> FALSE]

\* a RangeError thrown by toISOString
RangeError == [y |-> 0, m |-> 0, d |-> 0, err |-> TRUE]

\* date.toISOString().split('T')[0]: throws on an invalid date
ToISODay(date) ==
    IF date.nan THEN RangeError
    ELSE LET c == CivilFromDays(DayNumber(date))
         IN [y |-> c.y, m |-> c.m, d |-> c.d, err |-> FALSE]

\* new Date(dateInput) of a timestamp value
NewDate(v) == IF v.k = "number" THEN MsDate(v.hi, v.lo) ELSE DateParse(v.s)

\* formatDateForGrouping without the check of the date
formatDateForGroupingUnchecked(v) ==
    ToISODay(IF v.k = "number" /\ BelowThreshold(v)
             THEN NewDate([v EXCEPT !.hi = TimesThousand(v).hi, !.lo = TimesThousand(v).lo])
             ELSE NewDate(v))

formatDateForGrouping(v) ==
    LET date == IF v.k = "number" /\ BelowThreshold(v)
                THEN NewDate([v EXCEPT !.hi = TimesThousand(v).hi, !.lo = TimesThousand(v).lo])
                ELSE NewDate(v)
    IN IF date.nan THEN EmptyKey ELSE ToISODay(date)

\* new Date(dateKey).getTime() in units of a day (86400000 ms)
KeyTime(key) == DaysFromCivil(key)

\* the month and the day of the month: toLocaleDateString 'short', 'numeric'
formatDateForLabel(key) ==
    LET c == CivilFromDays(KeyTime(key))
    IN [month |-> c.m, day |-> c.d]

----------------------------------------------------------------------------
(* Inputs: the props of the components *)

Nordstrom == "Nordstrom"

Brands == {Nordstrom, "Macys", "Saks"}

Platforms == {"Instagram", "TikTok"}

Post(r, i, v, ts, ct, sc, lb) ==
    [reach |-> r, impressions |-> i, views |-> v, timestamp |-> ts, createTime |-> ct,
     sentimentScore |-> sc, sentimentLabel |-> lb]

\* 2024-01-01T10:00:00Z in epoch seconds
Day1Seconds == NumTs(1704, 103200)

\* 2024-01-02T00:00:00Z in epoch seconds
Day2Seconds == NumTs(1704, 153600)

\* 2024-01-02T08:00:00Z in epoch milliseconds
Day2Millis == NumTs(1704182, 400000)

\* the posts the datasets are built from
PostPool ==
    { Post(<<2>>, <<3>>, <<5>>, StrTs("2024-01-02T08:00:00Z"), Day1Seconds, <<5>>, Undefined),
      Post(<<0>>, <<3>>, Undefined, StrTs("2023-12-31T23:30:00-05:00"), Day2Millis, <<-5>>, <<"positive">>),
      Post(Undefined, <<3>>, <<0>>, StrTs("not-a-date"), StrTs("not-a-date"), <<0>>, Undefined),
      Post(Undefined, Undefined, Undefined, Undefined, Day2Seconds, Undefined, <<"negative">>),
      Post(<<1>>, <<0>>, <<1>>, StrTs("2024-01-02T08:00:00Z"), Day1Seconds, Undefined, Undefined),
      Post(<<2>>, Undefined, <<5>>, StrTs("2023-12-31T23:30:00-05:00"), NumTs(0, 0), <<5>>, <<"neutral">>) }

\* posts[brand]: undefined, or a list of posts
NoPosts == [defined |-> FALSE, list |-> << >>]

PostList(l) == [defined |-> TRUE, list |-> l]

SeqsUpTo(S, n) == UNION {[1..k -> S] : k \in 0..n}

\* the posts of a list that an assignment of owners gives to a brand, in order
RECURSIVE OwnedBy(_, _, _, _)
OwnedBy(all, owner, brand, i) ==
    IF i > Len(all) THEN << >>
    ELSE IF owner[i] = brand THEN <<all[i]>> \o OwnedBy(all, owner, brand, i + 1)
    ELSE OwnedBy(all, owner, brand, i + 1)

\* the datasets of at most MaxPosts posts: a brand without posts has an empty
\* list or no entry
Datasets ==
    {[b \in Brands |->
        IF OwnedBy(all, owner, b, 1) = << >> /\ b \in missing
        THEN NoPosts
        ELSE PostList(OwnedBy(all, owner, b, 1))] :
      <<all, owner, missing>> \in
        UNION {[1..n -> PostPool] \X [1..n -> Brands] \X SUBSET Brands : n \in 0..MaxPosts}}

\* the selections: lists of brands without repetition
Selections ==
    {s \in SeqsUpTo(Brands, Cardinality(Brands)) : \A i, j \in 1..Len(s) : s[i] = s[j] => i = j}

----------------------------------------------------------------------------
(* ReachSection: totalReachByBrand *)

\* a || b on optional numbers
OrNum(a, b) == IF TruthyNum(a) THEN a ELSE b

\* postReach taking the first field that is set, whatever the platform
postReachAnyField(plat, post) ==
    OrNum(OrNum(OrNum(post.reach, post.impressions), post.views), <<0>>)[1]

\* the value one post adds to totalReach
postReach(plat, post) ==
    IF plat = "Instagram"
    THEN OrNum(OrNum(post.reach, post.impressions), <<0>>)[1]
    ELSE OrNum(post.views, <<0>>)[1]

\* posts[brand] || []
brandPostsOf(ps, brand) == IF ps[brand].defined THEN ps[brand].list ELSE << >>

RECURSIVE sumReach(_, _, _, _)
sumReach(plat, list, i, totalReach) ==
    IF i > Len(list) THEN totalReach
    ELSE sumReach(plat, list, i + 1, totalReach + postReach(plat, list[i]))

RECURSIVE reachValuesOf(_, _, _, _, _)
reachValuesOf(plat, sel, ps, i, reachValues) ==
    IF i > Len(sel) THEN reachValues
    ELSE reachValuesOf(plat, sel, ps, i + 1,
                       Append(reachValues, sumReach(plat, brandPostsOf(ps, sel[i]), 1, 0)))

totalReachByBrand(plat, sel, ps) ==
    [status |-> "ok", labels |-> sel, data |-> reachValuesOf(plat, sel, ps, 1, << >>)]

----------------------------------------------------------------------------
(* SentimentAnalysis: hasData *)

RECURSIVE countPosts(_, _, _, _)
countPosts(sel, ps, i, totalPosts) ==
    IF i > Len(sel) THEN totalPosts
    ELSE countPosts(sel, ps, i + 1,
                    totalPosts + (IF ps[sel[i]].defined THEN Len(ps[sel[i]].list) ELSE 0))

\* hasData counting the posts of every brand of the dataset
hasDataOfAnyBrand(sel, ps) == \E brand \in Brands : ps[brand].defined /\ Len(ps[brand].list) > 0

hasData(sel, ps) == countPosts(sel, ps, 1, 0) > 0

----------------------------------------------------------------------------
(* SentimentAnalysis: comparativeAvgSentimentOverTimeData *)

Null == [isNull |-> TRUE, num |-> 0, den |-> 1]

RECURSIVE Gcd(_, _)
Gcd(a, b) == IF b = 0 THEN a ELSE Gcd(b, a % b)

Abs(n) == IF n < 0 THEN 0 - n ELSE n

\* the number n / d
Quotient(n, d) ==
    LET g == Gcd(Abs(n), d)
    IN [isNull |-> FALSE, num |-> n \div g, den |-> d \div g]

RECURSIVE sumScores(_, _, _)
sumScores(scores, i, a) ==
    IF i > Len(scores) THEN a ELSE sumScores(scores, i + 1, a + scores[i])

\* allDates.add(dateKey)
addDate(allDates, dateKey) ==
    IF \E i \in 1..Len(allDates) : allDates[i] = dateKey
    THEN allDates
    ELSE Append(allDates, dateKey)

\* pushScore adding the score to the entries of all brands on the date
pushScoreAllBrands(daily, dateKey, brand, score) ==
    [k \in DOMAIN daily \cup {<<dateKey, b>> : b \in Brands} |->
        IF k \in DOMAIN daily
        THEN IF k[1] = dateKey THEN Append(daily[k], score) ELSE daily[k]
        ELSE <<score>>]

\* dailyBrandSentiments[dateKey][brand].push(score), creating the entries
pushScore(daily, dateKey, brand, score) ==
    IF <<dateKey, brand>> \in DOMAIN daily
    THEN [daily EXCEPT ![<<dateKey, brand>>] = Append(@, score)]
    ELSE [k \in DOMAIN daily \cup {<<dateKey, brand>>} |->
            IF k \in DOMAIN daily THEN daily[k] ELSE <<score>>]

\* the timestamp field of the platform
timestampOf(plat, post) ==
    IF plat = "Instagram" THEN post.timestamp ELSE post.createTime

\* collectPost adding the date of a post before looking at its score
collectPostDateFirst(plat, brand, post, acc) ==
    LET timestamp == timestampOf(plat, post)
        score == post.sentimentScore
    IN IF TruthyTs(timestamp)
       THEN LET dateKey == formatDateForGrouping(timestamp[1])
            IN IF dateKey.err THEN [acc EXCEPT !.threw = TRUE]
               ELSE IF dateKey = EmptyKey THEN acc
               ELSE IF IsNumber(score)
                    THEN [acc EXCEPT !.allDates = addDate(@, dateKey),
                                     !.daily = pushScore(@, dateKey, brand, score[1])]
                    ELSE [acc EXCEPT !.allDates = addDate(@, dateKey)]
       ELSE acc

\* one post of the inner forEach
collectPost(plat, brand, post, acc) ==
    LET timestamp == timestampOf(plat, post)
        score == post.sentimentScore
    IN IF TruthyTs(timestamp) /\ IsNumber(score)
       THEN LET dateKey == formatDateForGrouping(timestamp[1])
            IN IF dateKey.err THEN [acc EXCEPT !.threw = TRUE]
               ELSE IF dateKey = EmptyKey THEN acc
               ELSE [acc EXCEPT !.allDates = addDate(@, dateKey),
                                !.daily = pushScore(@, dateKey, brand, score[1])]
       ELSE acc

RECURSIVE collectPosts(_, _, _, _, _)
collectPosts(plat, brand, list, i, acc) ==
    IF i > Len(list) \/ acc.threw THEN acc
    ELSE collectPosts(plat, brand, list, i + 1, collectPost(plat, brand, list[i], acc))

RECURSIVE collectBrands(_, _, _, _, _)
collectBrands(plat, sel, ps, i, acc) ==
    IF i > Len(sel) \/ acc.threw THEN acc
    ELSE collectBrands(plat, sel, ps, i + 1,
                       collectPosts(plat, sel[i], brandPostsOf(ps, sel[i]), 1, acc))

\* insertDate keeping the order of insertion
insertDateLast(sorted, dateKey) == Append(sorted, dateKey)

\* one date put in its place of a sorted list: after the dates that are not later
RECURSIVE insertDate(_, _)
insertDate(sorted, dateKey) ==
    IF sorted = << >> THEN <<dateKey>>
    ELSE IF KeyTime(dateKey) - KeyTime(sorted[Len(sorted)]) >= 0
         THEN Append(sorted, dateKey)
         ELSE Append(insertDate(SubSeq(sorted, 1, Len(sorted) - 1), dateKey),
                     sorted[Len(sorted)])

\* Array.from(allDates).sort((a, b) => new Date(a).getTime() - new Date(b).getTime())
RECURSIVE sortDates(_, _, _)
sortDates(allDates, i, sorted) ==
    IF i > Len(allDates) THEN sorted
    ELSE sortDates(allDates, i + 1, insertDate(sorted, allDates[i]))

\* meanOrNull giving 0 for a date without scores
meanOrZero(daily, dateKey, brand) ==
    IF <<dateKey, brand>> \in DOMAIN daily /\ Len(daily[<<dateKey, brand>>]) > 0
    THEN Quotient(sumScores(daily[<<dateKey, brand>>], 1, 0), Len(daily[<<dateKey, brand>>]))
    ELSE Quotient(0, 1)

\* the mean of the scores of a brand on a date, or null
meanOrNull(daily, dateKey, brand) ==
    IF <<dateKey, brand>> \in DOMAIN daily /\ Len(daily[<<dateKey, brand>>]) > 0
    THEN Quotient(sumScores(daily[<<dateKey, brand>>], 1, 0), Len(daily[<<dateKey, brand>>]))
    ELSE Null

\* brandData leaving out the dates without scores
brandDataWithoutNull(daily, sortedDates, brand) ==
    LET HasScores(dateKey) == <<dateKey, brand>> \in DOMAIN daily
        dates == SelectSeq(sortedDates, HasScores)
    IN [i \in 1..Len(dates) |-> meanOrNull(daily, dates[i], brand)]

\* sortedDates.map(date => ...) for one brand
brandData(daily, sortedDates, brand) ==
    [i \in 1..Len(sortedDates) |-> meanOrNull(daily, sortedDates[i], brand)]

\* selectedBrands.includes('Nordstrom'): the first dataset
nordstromDatasets(daily, sortedDates, sel) ==
    IF \E i \in 1..Len(sel) : sel[i] = Nordstrom
    THEN <<[label |-> Nordstrom, data |-> brandData(daily, sortedDates, Nordstrom)]>>
    ELSE << >>

\* otherDatasets emitting every selected brand in input order
otherDatasetsInputOrder(daily, sortedDates, sel, i, chartDatasets) ==
    [k \in 1..Len(sel) |-> [label |-> sel[k], data |-> brandData(daily, sortedDates, sel[k])]]

\* the second forEach: the datasets of the other brands
RECURSIVE otherDatasets(_, _, _, _, _)
otherDatasets(daily, sortedDates, sel, i, chartDatasets) ==
    IF i > Len(sel) THEN chartDatasets
    ELSE IF sel[i] = Nordstrom THEN otherDatasets(daily, sortedDates, sel, i + 1, chartDatasets)
    ELSE otherDatasets(daily, sortedDates, sel, i + 1,
                       Append(chartDatasets,
                              [label |-> sel[i], data |-> brandData(daily, sortedDates, sel[i])]))

comparativeAvgSentimentOverTimeData(plat, sel, ps) ==
    IF ~hasData(sel, ps) THEN [status |-> "ok", labels |-> << >>, datasets |-> << >>]
    ELSE LET acc == collectBrands(plat, sel, ps, 1,
                                  [allDates |-> << >>, daily |-> << >>, threw |-> FALSE])
             sortedDates == sortDates(acc.allDates, 1, << >>)
         IN IF acc.threw THEN [status |-> "threw", labels |-> << >>, datasets |-> << >>]
            ELSE [status |-> "ok",
                  labels |-> [i \in 1..Len(sortedDates) |-> formatDateForLabel(sortedDates[i])],
                  datasets |-> otherDatasets(acc.daily, sortedDates, sel, 1,
                                             nordstromDatasets(acc.daily, sortedDates, sel))]

----------------------------------------------------------------------------
(* SentimentAnalysis: sentimentDistributionData *)

\* countPost reading the label before the score
countPostLabelFirst(post, counts) ==
    IF TruthyStr(post.sentimentLabel)
    THEN IF post.sentimentLabel[1] = "positive" THEN [counts EXCEPT ![1] = @ + 1]
         ELSE IF post.sentimentLabel[1] = "negative" THEN [counts EXCEPT ![3] = @ + 1]
         ELSE [counts EXCEPT ![2] = @ + 1]
    ELSE IF IsNumber(post.sentimentScore)
    THEN IF post.sentimentScore[1] > 0 THEN [counts EXCEPT ![1] = @ + 1]
         ELSE IF post.sentimentScore[1] < 0 THEN [counts EXCEPT ![3] = @ + 1]
         ELSE [counts EXCEPT ![2] = @ + 1]
    ELSE counts

\* countPost counting a post without score and label as neutral
countPostNeutralDefault(post, counts) ==
    IF IsNumber(post.sentimentScore)
    THEN IF post.sentimentScore[1] > 0 THEN [counts EXCEPT ![1] = @ + 1]
         ELSE IF post.sentimentScore[1] < 0 THEN [counts EXCEPT ![3] = @ + 1]
         ELSE [counts EXCEPT ![2] = @ + 1]
    ELSE IF TruthyStr(post.sentimentLabel) /\ post.sentimentLabel[1] = "positive"
    THEN [counts EXCEPT ![1] = @ + 1]
    ELSE IF TruthyStr(post.sentimentLabel) /\ post.sentimentLabel[1] = "negative"
    THEN [counts EXCEPT ![3] = @ + 1]
    ELSE [counts EXCEPT ![2] = @ + 1]

\* one post of the forEach: the counts [positive, neutral, negative]
countPost(post, counts) ==
    LET score == post.sentimentScore
    IN IF IsNumber(score)
       THEN IF score[1] > 0 THEN [counts EXCEPT ![1] = @ + 1]
            ELSE IF score[1] < 0 THEN [counts EXCEPT ![3] = @ + 1]
            ELSE [counts EXCEPT ![2] = @ + 1]
       ELSE IF TruthyStr(post.sentimentLabel)
       THEN IF post.sentimentLabel[1] = "positive" THEN [counts EXCEPT ![1] = @ + 1]
            ELSE IF post.sentimentLabel[1] = "negative" THEN [counts EXCEPT ![3] = @ + 1]
            ELSE [counts EXCEPT ![2] = @ + 1]
       ELSE counts

RECURSIVE countSentiments(_, _, _)
countSentiments(list, i, counts) ==
    IF i > Len(list) THEN counts
    ELSE countSentiments(list, i + 1, countPost(list[i], counts))

\* the element selectedBrands.map builds for one brand
brandDistribution(ps, brand) ==
    [brandName |-> brand, data |-> countSentiments(brandPostsOf(ps, brand), 1, <<0, 0, 0>>)]

\* filterSome keeping every element
filterSomeKeepAll(list, i, kept) == list

\* .filter(data => data.chartData.datasets[0].data.some(d => d > 0))
RECURSIVE filterSome(_, _, _)
filterSome(list, i, kept) ==
    IF i > Len(list) THEN kept
    ELSE filterSome(list, i + 1,
                    IF \E j \in 1..3 : list[i].data[j] > 0 THEN Append(kept, list[i]) ELSE kept)

sentimentDistributionData(sel, ps) ==
    IF ~hasData(sel, ps) THEN [status |-> "ok", list |-> << >>]
    ELSE [status |-> "ok",
          list |-> filterSome([i \in 1..Len(sel) |-> brandDistribution(ps, sel[i])], 1, << >>)]

----------------------------------------------------------------------------
(* HashtagSection: the social data of the context *)

\* a post of the social data: its hashtags field and the tokens of its text,
\* a token being a word with or without a leading '#'
HashtagPost(tags, tokens) == [hashtags |-> tags, text |-> tokens]

Word(w) == [hash |-> FALSE, word |-> w]

Tag(w) == [hash |-> TRUE, word |-> w]

\* the lists of posts an entry of the social data is drawn from
PostLists ==
    { <<HashtagPost(<< >>, <<Word("hello")>>)>>,
      <<HashtagPost(<<"sale", "Sale", "new">>, << >>)>>,
      <<HashtagPost(<<"a", "b", "c", "d">>, <<Tag("ignored")>>),
        HashtagPost(<< >>, <<Word("our"), Tag("e"), Tag("NEW"), Tag("sale")>>)>>,
      <<HashtagPost(<<"sale">>, << >>)>> }

\* socialData.instagram[brand], socialData.tiktok[brand]: undefined or { posts }
NoEntry == [defined |-> FALSE, posts |-> << >>]

Entry(l) == [defined |-> TRUE, posts |-> l]

\* contextSocialData null
NoSocialData ==
    [isNull |-> TRUE, instagram |-> [b \in Brands |-> NoEntry], tiktok |-> [b \in Brands |-> NoEntry]]

\* the social data in which the entries of a partial map hold its lists; the
\* other entries are undefined for all brands or hold no posts for all brands
SocialDataOf(filled, absent) ==
    LET entry(p, b) == IF <<p, b>> \in DOMAIN filled THEN Entry(filled[<<p, b>>])
                       ELSE IF absent THEN NoEntry ELSE Entry(<< >>)
    IN [isNull |-> FALSE,
        instagram |-> [b \in Brands |-> entry("Instagram", b)],
        tiktok |-> [b \in Brands |-> entry("TikTok", b)]]

SocialDatas ==
    {NoSocialData} \cup
    {SocialDataOf(filled, absent) :
        <<filled, absent>> \in
            UNION {[cells -> PostLists] \X BOOLEAN :
                     cells \in {c \in SUBSET (Platforms \X Brands) : Cardinality(c) <= MaxEntries}}}

----------------------------------------------------------------------------
(* HashtagSection: hasData *)

\* contextSocialData.instagram[brand]?.posts || []
entryPosts(data, brand) == IF data[brand].defined THEN data[brand].posts ELSE << >>

\* hasData reading the Instagram posts only
hashtagHasDataInstagramOnly(sel, social) ==
    /\ ~social.isNull
    /\ \E i \in 1..Len(sel) : Len(entryPosts(social.instagram, sel[i])) > 0

hashtagHasData(sel, social) ==
    IF social.isNull THEN FALSE
    ELSE \E i \in 1..Len(sel) :
            LET brandInstaData == entryPosts(social.instagram, sel[i])
                brandTiktokData == entryPosts(social.tiktok, sel[i])
            IN Len(brandInstaData) > 0 \/ Len(brandTiktokData) > 0

----------------------------------------------------------------------------
(* utils/chartUtils: generateUnifiedHashtagChart, after section 4.3 *)

\* the number of hashtags of the label axis
TopK == 5

\* the lower case of a word
LowerCase(w) ==
    CASE w = "Sale" -> "sale"
      [] w = "NEW" -> "new"
      [] OTHER -> w

\* the hashtags of a post in lower case: those of its hashtags field, or, when
\* it has none, the '#' tokens of its text
extractHashtags(post) ==
    LET IsTag(token) == token.hash
        parsed == SelectSeq(post.text, IsTag)
        raw == IF post.hashtags # << >> THEN post.hashtags
               ELSE [i \in 1..Len(parsed) |-> parsed[i].word]
    IN [i \in 1..Len(raw) |-> LowerCase(raw[i])]

\* one more occurrence of a hashtag in a tally, a list of [tag, count] in the
\* order of first occurrence
tallyTag(tally, tag) ==
    IF \E k \in 1..Len(tally) : tally[k].tag = tag
    THEN [k \in 1..Len(tally) |->
            IF tally[k].tag = tag THEN [tally[k] EXCEPT !.count = @ + 1] ELSE tally[k]]
    ELSE Append(tally, [tag |-> tag, count |-> 1])

RECURSIVE tallyTags(_, _, _)
tallyTags(tags, i, tally) ==
    IF i > Len(tags) THEN tally ELSE tallyTags(tags, i + 1, tallyTag(tally, tags[i]))

RECURSIVE tallyPosts(_, _, _)
tallyPosts(list, i, tally) ==
    IF i > Len(list) THEN tally
    ELSE tallyPosts(list, i + 1, tallyTags(extractHashtags(list[i]), 1, tally))

\* the occurrences pooled across the selected brands
RECURSIVE tallyBrands(_, _, _, _)
tallyBrands(data, sel, i, tally) ==
    IF i > Len(sel) THEN tally
    ELSE tallyBrands(data, sel, i + 1, tallyPosts(entryPosts(data, sel[i]), 1, tally))

\* an entry put in its place of a list sorted by count, descending: after the
\* entries whose count is not smaller
RECURSIVE insertByCount(_, _)
insertByCount(sorted, e) ==
    IF sorted = << >> THEN <<e>>
    ELSE IF sorted[Len(sorted)].count >= e.count THEN Append(sorted, e)
    ELSE Append(insertByCount(SubSeq(sorted, 1, Len(sorted) - 1), e), sorted[Len(sorted)])

RECURSIVE sortByCount(_, _, _)
sortByCount(tally, i, sorted) ==
    IF i > Len(tally) THEN sorted
    ELSE sortByCount(tally, i + 1, insertByCount(sorted, tally[i]))

\* the first k hashtags by pooled count, ties in the order of first occurrence
topHashtags(tally, k) ==
    LET sorted == sortByCount(tally, 1, << >>)
        n == IF Len(sorted) < k THEN Len(sorted) ELSE k
    IN [i \in 1..n |-> sorted[i].tag]

\* the count of a hashtag in a tally, 0 when it is not there
countOf(tally, tag) ==
    IF \E k \in 1..Len(tally) : tally[k].tag = tag
    THEN tally[CHOOSE k \in 1..Len(tally) : tally[k].tag = tag].count
    ELSE 0

generateUnifiedHashtagChart(instagram, tiktok, sel, plat) ==
    LET data == IF plat = "Instagram" THEN instagram ELSE tiktok
        labels == topHashtags(tallyBrands(data, sel, 1, << >>), TopK)
    IN IF labels = << >> THEN [status |-> "ok", labels |-> << >>, datasets |-> << >>]
       ELSE [status |-> "ok",
             labels |-> labels,
             datasets |-> [i \in 1..Len(sel) |->
                 [label |-> sel[i],
                  data |-> LET own == tallyPosts(entryPosts(data, sel[i]), 1, << >>)
                           IN [j \in 1..Len(labels) |-> countOf(own, labels[j])]]]]

----------------------------------------------------------------------------
(* HashtagSection: unifiedChartData *)

unifiedChartData(plat, sel, social) ==
    IF ~hashtagHasData(sel, social) \/ social.isNull
    THEN [status |-> "ok", labels |-> << >>, datasets |-> << >>]
    ELSE generateUnifiedHashtagChart(social.instagram, social.tiktok, sel, plat)

----------------------------------------------------------------------------
(* The components render: each useMemo computes its value from the props *)

Init ==
    /\ platform \in Platforms
    /\ selectedBrands \in Selections
    /\ posts \in Datasets
    /\ reachChart = [status |-> "pending", labels |-> << >>, data |-> << >>]
    /\ sentimentChart = [status |-> "pending", labels |-> << >>, datasets |-> << >>]
    /\ distribution = [status |-> "pending", list |-> << >>]
    /\ socialData = NoSocialData
    /\ unifiedChart = [status |-> "pending", labels |-> << >>, datasets |-> << >>]
    /\ dateInputs = << >>
    /\ dayKeys = [status |-> "pending", keys |-> << >>]

\* ReachSection renders: its useMemo hooks run
RenderReachSection ==
    /\ reachChart.status = "pending"
    /\ reachChart' = totalReachByBrand(platform, selectedBrands, posts)
    /\ UNCHANGED <<platform, selectedBrands, posts, sentimentChart, distribution,
                   socialData, unifiedChart, dateInputs, dayKeys>>

\* SentimentAnalysis renders: its useMemo hooks run, in the order of the source
RenderSentimentAnalysis ==
    /\ sentimentChart.status = "pending"
    /\ sentimentChart' = comparativeAvgSentimentOverTimeData(platform, selectedBrands, posts)
    /\ distribution' = sentimentDistributionData(selectedBrands, posts)
    /\ UNCHANGED <<platform, selectedBrands, posts, reachChart, socialData, unifiedChart,
                   dateInputs, dayKeys>>

Next ==
    \/ RenderReachSection
    \/ RenderSentimentAnalysis

Spec == Init /\ [][Next]_vars

\* HashtagSection alone: the props and the social data of the context are
\* drawn, the posts prop is not used
InitHashtag ==
    /\ platform \in Platforms
    /\ selectedBrands \in Selections
    /\ posts = [b \in Brands |-> NoPosts]
    /\ reachChart = [status |-> "pending", labels |-> << >>, data |-> << >>]
    /\ sentimentChart = [status |-> "pending", labels |-> << >>, datasets |-> << >>]
    /\ distribution = [status |-> "pending", list |-> << >>]
    /\ socialData \in SocialDatas
    /\ unifiedChart = [status |-> "pending", labels |-> << >>, datasets |-> << >>]
    /\ dateInputs = << >>
    /\ dayKeys = [status |-> "pending", keys |-> << >>]

\* HashtagSection renders: its useMemo hooks run
RenderHashtagSection ==
    /\ unifiedChart.status = "pending"
    /\ unifiedChart' = unifiedChartData(platform, selectedBrands, socialData)
    /\ UNCHANGED <<platform, selectedBrands, posts, reachChart, sentimentChart, distribution,
                   socialData, dateInputs, dayKeys>>

NextHashtag == RenderHashtagSection

SpecHashtag == InitHashtag /\ [][NextHashtag]_vars

\* numeric timestamps in seconds: the epoch, one day after it, the last second
\* whose thousandfold is below 1E12, the first whose thousandfold is not, and
\* the seconds of the model's posts
SecondsInputs ==
    {NumTs(0, 0)[1], NumTs(0, 86400)[1], NumTs(999, 999999)[1], NumTs(1000, 0)[1],
     Day1Seconds[1], Day2Seconds[1]}

\* the same instants in milliseconds
MillisInputs ==
    {[v EXCEPT !.hi = TimesThousand(v).hi, !.lo = TimesThousand(v).lo] : v \in SecondsInputs}

StringInputs ==
    {StrTs("2024-01-02T08:00:00Z")[1], StrTs("2023-12-31T23:30:00-05:00")[1],
     StrTs("not-a-date")[1], StrTs("")[1]}

DateInputs == SecondsInputs \cup MillisInputs \cup StringInputs

\* formatDateForGrouping alone: the timestamps of two posts are drawn
InitDate ==
    /\ platform \in Platforms
    /\ selectedBrands = << >>
    /\ posts = [b \in Brands |-> NoPosts]
    /\ reachChart = [status |-> "pending", labels |-> << >>, data |-> << >>]
    /\ sentimentChart = [status |-> "pending", labels |-> << >>, datasets |-> << >>]
    /\ distribution = [status |-> "pending", list |-> << >>]
    /\ socialData = NoSocialData
    /\ unifiedChart = [status |-> "pending", labels |-> << >>, datasets |-> << >>]
    /\ dateInputs \in [1..2 -> DateInputs]
    /\ dayKeys = [status |-> "pending", keys |-> << >>]

\* const dateKey = formatDateForGrouping(timestamp), for each of the timestamps
FormatDates ==
    /\ dayKeys.status = "pending"
    /\ dayKeys' = [status |-> "ok",
                   keys |-> [i \in 1..Len(dateInputs) |-> formatDateForGrouping(dateInputs[i])]]
    /\ UNCHANGED <<platform, selectedBrands, posts, reachChart, sentimentChart, distribution,
                   socialData, unifiedChart, dateInputs>>

NextDate == FormatDates

SpecDate == InitDate /\ [][NextDate]_vars

----------------------------------------------------------------------------
(* What the properties speak of *)

RECURSIVE SeqSum(_)
SeqSum(q) == IF q = << >> THEN 0 ELSE Head(q) + SeqSum(Tail(q))

\* the posts of a brand, none when the dataset has no entry for it
ListOf(brand) == IF posts[brand].defined THEN posts[brand].list ELSE << >>

SelectedSet == {selectedBrands[i] : i \in 1..Len(selectedBrands)}

\* the reach field of the platform: reach on Instagram, views on TikTok
ReachField(post) == IF platform = "Instagram" THEN post.reach ELSE post.views

\* the platform-resolved value of a post, a value of 0 standing for none:
\* Instagram: reach, else impressions, else 0; TikTok: views, else 0
ResolvedReach(post) ==
    IF platform = "Instagram"
    THEN IF post.reach # Undefined /\ post.reach # <<0>> THEN post.reach[1]
         ELSE IF post.impressions # Undefined THEN post.impressions[1]
         ELSE 0
    ELSE IF post.views # Undefined THEN post.views[1] ELSE 0

ReachRendered == reachChart.status = "ok"

SentimentRendered == sentimentChart.status = "ok"

DistributionRendered == distribution.status = "ok"

----------------------------------------------------------------------------
(* C1 *)

\* C1: for every selected brand the reach total is 0 when the brand has no
\* posts, and N * r when each of its N posts has reach r, whatever the other
\* fields of those posts hold.
C1_TotalIsNTimesReach ==
    ReachRendered =>
        \A i \in 1..Len(selectedBrands) :
            LET list == ListOf(selectedBrands[i])
            IN /\ list = << >> => reachChart.data[i] = 0
               /\ \A r \in 0..2 :
                    (\A j \in 1..Len(list) : ReachField(list[j]) = <<r>>)
                        => reachChart.data[i] = Len(list) * r

----------------------------------------------------------------------------
(* C2 *)

----------------------------------------------------------------------------
(* C3, C4 *)

HasScore(post) == post.sentimentScore # Undefined

HasLabel(post) == post.sentimentLabel # Undefined /\ post.sentimentLabel # <<"">>

\* the bucket the classification rule gives a post, "none" for a post with
\* neither a score nor a label
BucketOf(post) ==
    IF HasScore(post)
    THEN IF post.sentimentScore[1] > 0 THEN "positive"
         ELSE IF post.sentimentScore[1] < 0 THEN "negative"
         ELSE "neutral"
    ELSE IF HasLabel(post) THEN post.sentimentLabel[1]
    ELSE "none"

\* the number of posts of a brand the rule puts in a bucket
BucketSize(brand, bucket) ==
    Cardinality({j \in 1..Len(ListOf(brand)) : BucketOf(ListOf(brand)[j]) = bucket})

\* the counts [positive, neutral, negative] the distribution shows for a
\* brand: those of its element, or zeros when the brand is left out
ShownCounts(brand) ==
    IF \E k \in 1..Len(distribution.list) : distribution.list[k].brandName = brand
    THEN distribution.list[CHOOSE k \in 1..Len(distribution.list) :
                              distribution.list[k].brandName = brand].data
    ELSE <<0, 0, 0>>

\* C3: a post with a numeric score is counted by the sign of the score, the
\* label being ignored; a post without a score is counted in the bucket its
\* label names; a post with neither is counted in no bucket.
C3_ClassificationRule ==
    DistributionRendered =>
        \A brand \in SelectedSet :
            ShownCounts(brand) = <<BucketSize(brand, "positive"),
                                   BucketSize(brand, "neutral"),
                                   BucketSize(brand, "negative")>>

\* a brand holds a post whose score and label disagree and a post with neither
C3_Witness ==
    /\ DistributionRendered
    /\ \E brand \in SelectedSet :
        /\ \E j \in 1..Len(ListOf(brand)) :
            LET post == ListOf(brand)[j]
            IN HasScore(post) /\ HasLabel(post) /\ BucketOf(post) # post.sentimentLabel[1]
        /\ \E j \in 1..Len(ListOf(brand)) : BucketOf(ListOf(brand)[j]) = "none"
        /\ ShownCounts(brand) # <<0, 0, 0>>

\* C4: for every brand the three counts add up to the number of its posts that
\* have a numeric score or a label.
C4_CountsSumToPostsWithSignal ==
    DistributionRendered =>
        /\ \A brand \in SelectedSet :
            ShownCounts(brand)[1] + ShownCounts(brand)[2] + ShownCounts(brand)[3]
                = Cardinality({j \in 1..Len(ListOf(brand)) :
                                 HasScore(ListOf(brand)[j]) \/ HasLabel(ListOf(brand)[j])})
        /\ \A k \in 1..Len(distribution.list) : distribution.list[k].brandName \in SelectedSet

\* a brand holds a post with a signal and a post without one
C4_Witness ==
    /\ DistributionRendered
    /\ \E brand \in SelectedSet :
        /\ Len(ListOf(brand)) = 2
        /\ ShownCounts(brand)[1] + ShownCounts(brand)[2] + ShownCounts(brand)[3] = 1

----------------------------------------------------------------------------
(* The days of the posts, as the calendar gives them *)

Day(yy, mm, dd) == [y |-> yy, m |-> mm, d |-> dd]

\* the timestamp of a post on the platform
TimestampOf(post) == IF platform = "Instagram" THEN post.timestamp ELSE post.createTime

\* the timestamp values that denote an instant
ParsedTimestamps ==
    {Day1Seconds, Day2Seconds, Day2Millis, NumTs(0, 0),
     StrTs("2024-01-02T08:00:00Z"), StrTs("2023-12-31T23:30:00-05:00")}

\* the UTC calendar day of such a value
UtcDay(ts) ==
    CASE ts = Day1Seconds -> Day(2024, 1, 1)
      [] ts = StrTs("2023-12-31T23:30:00-05:00") -> Day(2024, 1, 1)
      [] ts = Day2Seconds -> Day(2024, 1, 2)
      [] ts = Day2Millis -> Day(2024, 1, 2)
      [] ts = StrTs("2024-01-02T08:00:00Z") -> Day(2024, 1, 2)
      [] ts = NumTs(0, 0) -> Day(1970, 1, 1)

\* the post carries a timestamp: a value other than undefined, 0 and ''
HasTimestamp(post) ==
    /\ TimestampOf(post) # Undefined
    /\ TimestampOf(post) # NumTs(0, 0)
    /\ TimestampOf(post) # StrTs("")

\* the post carries a timestamp that does not parse
Malformed(post) == HasTimestamp(post) /\ TimestampOf(post) \notin ParsedTimestamps

\* a qualifying post: a timestamp that parses and a numeric score
Qualifying(post) ==
    HasTimestamp(post) /\ TimestampOf(post) \in ParsedTimestamps /\ HasScore(post)

SelectedPosts ==
    UNION {{ListOf(brand)[j] : j \in 1..Len(ListOf(brand))} : brand \in SelectedSet}

DayBefore(a, b) ==
    \/ a.y < b.y
    \/ a.y = b.y /\ a.m < b.m
    \/ a.y = b.y /\ a.m = b.m /\ a.d < b.d

\* the days of a set in ascending order, each once
RECURSIVE SortedDays(_)
SortedDays(days) ==
    IF days = {} THEN << >>
    ELSE LET first == CHOOSE a \in days : \A b \in days \ {a} : DayBefore(a, b)
         IN <<first>> \o SortedDays(days \ {first})

\* the label of a day
DayLabel(day) == [month |-> day.m, day |-> day.d]

LabelsOfDays(days) == [i \in 1..Len(days) |-> DayLabel(days[i])]

\* the dataset of a brand in the sentiment series
DatasetOf(brand) ==
    sentimentChart.datasets[CHOOSE k \in 1..Len(sentimentChart.datasets) :
                               sentimentChart.datasets[k].label = brand]

----------------------------------------------------------------------------
(* C5 *)

\* C5: the value of a bucket (brand, day) of the daily series is null exactly
\* when the brand has no qualifying post on that day: never 0 for such a
\* bucket, never null for a bucket with a qualifying post.
C5_NullIffNoQualifyingPost ==
    SentimentRendered =>
        \A k \in 1..Len(sentimentChart.datasets) :
            LET set == sentimentChart.datasets[k]
                list == ListOf(set.label)
            IN \A i \in DOMAIN set.data \cap DOMAIN sentimentChart.labels :
                set.data[i].isNull <=>
                    ~ \E j \in 1..Len(list) :
                        /\ Qualifying(list[j])
                        /\ DayLabel(UtcDay(TimestampOf(list[j]))) = sentimentChart.labels[i]

\* one bucket holds the mean 0 of two scores, another bucket is null
C5_Witness ==
    /\ SentimentRendered
    /\ \E k \in 1..Len(sentimentChart.datasets) :
        \E i \in DOMAIN sentimentChart.datasets[k].data :
            /\ sentimentChart.datasets[k].data[i] = [isNull |-> FALSE, num |-> 0, den |-> 1]
            /\ Len(ListOf(sentimentChart.datasets[k].label)) = 2
    /\ \E k \in 1..Len(sentimentChart.datasets) :
        \E i \in DOMAIN sentimentChart.datasets[k].data :
            sentimentChart.datasets[k].data[i].isNull

----------------------------------------------------------------------------
(* C6 *)

\* C6 as stated: the label axis is the ascending list of the valid calendar
\* days of all posts of the selected brands, each day once.
C6_LabelsAreDaysOfAllPosts ==
    SentimentRendered =>
        sentimentChart.labels =
            LabelsOfDays(SortedDays({UtcDay(TimestampOf(post)) :
                post \in {q \in SelectedPosts : TimestampOf(q) \in ParsedTimestamps}}))

\* C6 amended: the label axis is the ascending list of the UTC days of the
\* qualifying posts of the selected brands (a timestamp that parses and a
\* numeric score), each day once; a post whose timestamp does not parse adds
\* no label.
C6_LabelsAreDaysOfQualifyingPosts ==
    SentimentRendered =>
        sentimentChart.labels =
            LabelsOfDays(SortedDays({UtcDay(TimestampOf(post)) :
                post \in {q \in SelectedPosts : Qualifying(q)}}))

\* a brand lists a post of a later day before a post of an earlier day
C6_Witness ==
    /\ SentimentRendered
    /\ Len(sentimentChart.labels) = 2
    /\ \E brand \in SelectedSet :
        LET list == ListOf(brand)
        IN /\ Len(list) = 2
           /\ Qualifying(list[1]) /\ Qualifying(list[2])
           /\ DayBefore(UtcDay(TimestampOf(list[2])), UtcDay(TimestampOf(list[1])))

----------------------------------------------------------------------------
(* C7 *)

\* C7: every data vector of the reach series and of the daily sentiment series
\* has one entry per label.
C7_OneEntryPerLabel ==
    /\ ReachRendered => Len(reachChart.data) = Len(reachChart.labels)
    /\ SentimentRendered =>
        \A k \in 1..Len(sentimentChart.datasets) :
            DOMAIN sentimentChart.datasets[k].data = DOMAIN sentimentChart.labels

\* both series hold several labels, and a vector of the sentiment series holds
\* a null and a number
C7_Witness ==
    /\ ReachRendered /\ Len(reachChart.labels) >= 2
    /\ SentimentRendered /\ Len(sentimentChart.labels) = 2
    /\ Len(sentimentChart.datasets) >= 2
    /\ \E k \in 1..Len(sentimentChart.datasets) :
        LET data == sentimentChart.datasets[k].data
        IN \E i, j \in DOMAIN data : data[i].isNull /\ ~data[j].isNull

----------------------------------------------------------------------------
(* C8 *)

\* the selected brands with the primary brand moved to the front
PrimaryFirst ==
    LET NotPrimary(brand) == brand # Nordstrom
    IN IF Nordstrom \in SelectedSet
       THEN <<Nordstrom>> \o SelectSeq(selectedBrands, NotPrimary)
       ELSE selectedBrands

DatasetLabels == [k \in 1..Len(sentimentChart.datasets) |-> sentimentChart.datasets[k].label]

\* C8 as stated: whenever Nordstrom is selected its series is the first
\* dataset, the other selected brands follow in input order, and every
\* selected brand appears as exactly one dataset.
C8_PrimaryFirstAlways ==
    SentimentRendered => DatasetLabels = PrimaryFirst

\* C8 amended: the same, whenever at least one selected brand has a post.
C8_PrimaryFirstWhenData ==
    (SentimentRendered /\ \E brand \in SelectedSet : ListOf(brand) # << >>)
        => DatasetLabels = PrimaryFirst

\* Nordstrom is the last of three selected brands and leads the datasets
C8_Witness ==
    /\ SentimentRendered
    /\ Len(selectedBrands) = 3 /\ selectedBrands[3] = Nordstrom
    /\ Len(sentimentChart.datasets) = 3
    /\ sentimentChart.datasets[1].label = Nordstrom
    /\ Len(sentimentChart.labels) > 0

----------------------------------------------------------------------------
(* C9 *)

\* the dataset without the posts whose timestamp does not parse
WellFormed(post) == ~Malformed(post)

PostsWithoutMalformed ==
    [brand \in Brands |->
        [defined |-> posts[brand].defined, list |-> SelectSeq(posts[brand].list, WellFormed)]]

\* the posts of a brand whose timestamp does not parse
MalformedOf(brand) == SelectSeq(ListOf(brand), Malformed)

\* the sum of the three counts of a brand in a distribution
CountsIn(dist, brand) ==
    SeqSum([k \in 1..Len(dist.list) |->
        IF dist.list[k].brandName = brand
        THEN dist.list[k].data[1] + dist.list[k].data[2] + dist.list[k].data[3]
        ELSE 0])

\* C9: a post whose timestamp does not parse adds its reach metric to the
\* reach total and is counted in the sentiment distribution as any other post;
\* the daily series is the one computed without it; nothing is raised.
C9_MalformedTimestampOnlyLeavesSeries ==
    /\ reachChart.status # "threw"
    /\ sentimentChart.status # "threw"
    /\ distribution.status # "threw"
    /\ ReachRendered =>
        \A i \in 1..Len(selectedBrands) :
            LET bad == MalformedOf(selectedBrands[i])
            IN reachChart.data[i] =
                 totalReachByBrand(platform, selectedBrands, PostsWithoutMalformed).data[i]
                 + SeqSum([j \in 1..Len(bad) |-> ResolvedReach(bad[j])])
    /\ DistributionRendered =>
        \A brand \in SelectedSet :
            LET bad == MalformedOf(brand)
            IN CountsIn(distribution, brand) =
                 CountsIn(sentimentDistributionData(selectedBrands, PostsWithoutMalformed), brand)
                 + Cardinality({j \in 1..Len(bad) : HasScore(bad[j]) \/ HasLabel(bad[j])})
    /\ SentimentRendered =>
        LET without ==
              comparativeAvgSentimentOverTimeData(platform, selectedBrands, PostsWithoutMalformed)
        IN /\ sentimentChart.labels = without.labels
           /\ (\E brand \in SelectedSet : PostsWithoutMalformed[brand].list # << >>)
                => sentimentChart = without

\* a post with a timestamp that does not parse, a score and a reach metric is
\* in the reach total and in the distribution, next to a post that has a day
C9_Witness ==
    /\ ReachRendered /\ SentimentRendered /\ DistributionRendered
    /\ \E i \in 1..Len(selectedBrands) :
        LET list == ListOf(selectedBrands[i])
        IN /\ Len(list) = 2
           /\ Malformed(list[1]) /\ HasScore(list[1]) /\ ResolvedReach(list[1]) > 0
           /\ Qualifying(list[2])
           /\ reachChart.data[i] = ResolvedReach(list[1]) + ResolvedReach(list[2])
           /\ CountsIn(distribution, selectedBrands[i]) = 2
           /\ Len(sentimentChart.labels) = 1

----------------------------------------------------------------------------
(* C10 *)

\* no selected brand has a post
EmptyInput == \A brand \in SelectedSet : ListOf(brand) = << >>

\* C10: on empty input the daily series has no label and no dataset, the
\* distribution is the empty list, the reach series holds 0 for each selected
\* brand, and nothing is raised.
C10_EmptyInputGivesEmptyResults ==
    EmptyInput =>
        /\ reachChart.status # "threw"
        /\ sentimentChart.status # "threw"
        /\ distribution.status # "threw"
        /\ SentimentRendered => sentimentChart.labels = << >> /\ sentimentChart.datasets = << >>
        /\ DistributionRendered => distribution.list = << >>
        /\ ReachRendered =>
            /\ reachChart.labels = selectedBrands
            /\ reachChart.data = [i \in 1..Len(selectedBrands) |-> 0]

\* two selected brands, one without an entry and one with an empty list, while
\* a brand outside the selection has posts
C10_Witness ==
    /\ ReachRendered /\ SentimentRendered /\ DistributionRendered
    /\ EmptyInput
    /\ \E a, b \in SelectedSet : ~posts[a].defined /\ posts[b].defined
    /\ \E c \in Brands \ SelectedSet : ListOf(c) # << >>
    /\ reachChart.data = <<0, 0>>


----------------------------------------------------------------------------
(* The hashtag chart *)

HashtagRendered == unifiedChart.status = "ok"

\* the entry of a brand on the platform of the props
PlatformEntry(brand) ==
    IF platform = "Instagram" THEN socialData.instagram[brand] ELSE socialData.tiktok[brand]

\* the hashtags a brand uses on the platform of the props, in lower case
HashtagsOfBrand(brand) ==
    IF socialData.isNull \/ ~PlatformEntry(brand).defined THEN {}
    ELSE UNION {{extractHashtags(PlatformEntry(brand).posts[n])[m] :
                    m \in 1..Len(extractHashtags(PlatformEntry(brand).posts[n]))} :
                n \in 1..Len(PlatformEntry(brand).posts)}

HashtagsOfSelection == UNION {HashtagsOfBrand(b) : b \in SelectedSet}

\* C11: the hashtag chart has at most TopK labels, and its label list is empty
\* exactly when no selected brand has a hashtag on the platform of the props
C11_AtMostKLabelsEmptyIffNoHashtag ==
    HashtagRendered =>
        /\ Len(unifiedChart.labels) <= TopK
        /\ (unifiedChart.labels = << >>) <=> (HashtagsOfSelection = {})

\* the selected brands use more than TopK hashtags on the platform and the
\* chart shows TopK of them
C11_Witness ==
    /\ HashtagRendered
    /\ Cardinality(HashtagsOfSelection) > TopK
    /\ Len(unifiedChart.labels) = TopK

\* a selected brand has posts on the platform, none of them with a hashtag,
\* and the chart has no label
C11_WitnessNoHashtag ==
    /\ HashtagRendered
    /\ \E b \in SelectedSet : PlatformEntry(b).defined /\ PlatformEntry(b).posts # << >>
    /\ unifiedChart.labels = << >>


----------------------------------------------------------------------------
(* C13 *)

\* the qualifying posts of a brand whose UTC day has a label
QualifyingOn(brand, label) ==
    {j \in 1..Len(ListOf(brand)) :
        /\ Qualifying(ListOf(brand)[j])
        /\ DayLabel(UtcDay(TimestampOf(ListOf(brand)[j]))) = label}

\* the sum of the scores of some posts of a brand
ScoreSum(brand, js) ==
    SeqSum([j \in 1..Len(ListOf(brand)) |->
                IF j \in js THEN ListOf(brand)[j].sentimentScore[1] ELSE 0])

\* C13: for every selected brand and every day of the label axis on which the
\* brand has a qualifying post, the value of the brand on that day is the sum
\* of the scores of the brand's qualifying posts of that UTC day divided by
\* their number; no other post enters it.
C13_DailyValueIsMeanOfOwnScores ==
    SentimentRendered =>
        \A brand \in SelectedSet :
            \A i \in DOMAIN sentimentChart.labels :
                LET js == QualifyingOn(brand, sentimentChart.labels[i])
                IN js # {} =>
                    /\ \E k \in 1..Len(sentimentChart.datasets) :
                            sentimentChart.datasets[k].label = brand
                    /\ i \in DOMAIN DatasetOf(brand).data
                    /\ ~DatasetOf(brand).data[i].isNull
                    /\ DatasetOf(brand).data[i].den > 0
                    /\ DatasetOf(brand).data[i].num * Cardinality(js)
                            = ScoreSum(brand, js) * DatasetOf(brand).data[i].den

\* a brand has two posts on one day with the scores 0.5 and -0.5, and its
\* value on that day is 0
C13_Witness ==
    /\ SentimentRendered
    /\ \E brand \in SelectedSet :
        \E i \in DOMAIN sentimentChart.labels :
            /\ QualifyingOn(brand, sentimentChart.labels[i]) = {1, 2}
            /\ {ListOf(brand)[1].sentimentScore, ListOf(brand)[2].sentimentScore} = {<<5>>, <<-5>>}
            /\ DatasetOf(brand).data[i] = [isNull |-> FALSE, num |-> 0, den |-> 1]


----------------------------------------------------------------------------
(* C14 *)

\* the brand has a post the classification rule counts
HasCountedPost(brand) ==
    \E j \in 1..Len(ListOf(brand)) : BucketOf(ListOf(brand)[j]) # "none"

\* C14: the sentiment distribution lists the selected brands that have a
\* counted post, each once and in selection order; a brand whose three counts
\* are zero is left out, and no listed element has the counts (0, 0, 0).
C14_OmittedIffAllCountsZero ==
    DistributionRendered =>
        /\ [k \in 1..Len(distribution.list) |-> distribution.list[k].brandName]
                = SelectSeq(selectedBrands, HasCountedPost)
        /\ \A k \in 1..Len(distribution.list) : distribution.list[k].data # <<0, 0, 0>>

\* a selected brand whose posts are not counted stands before a brand with a
\* counted post: the first is left out, the second is listed
C14_Witness ==
    /\ DistributionRendered
    /\ \E i, j \in 1..Len(selectedBrands) :
        /\ i < j
        /\ ListOf(selectedBrands[i]) # << >> /\ ~HasCountedPost(selectedBrands[i])
        /\ HasCountedPost(selectedBrands[j])
        /\ distribution.list[1].brandName = selectedBrands[j]


----------------------------------------------------------------------------
(* C15 *)

DatesFormatted == dayKeys.status = "ok"

\* b is the number 1000 * a
IsThousandfold(a, b) ==
    /\ a.k = "number" /\ b.k = "number"
    /\ b.hi = 1000 * a.hi + a.lo \div 1000
    /\ b.lo = 1000 * (a.lo % 1000)

\* the value denotes an instant: a number, or a string that Date.parse reads
Parses(v) ==
    \/ v.k = "number"
    \/ v.s \in {"2024-01-02T08:00:00Z", "2023-12-31T23:30:00-05:00"}

\* no key is an error; a value has a day key exactly when it parses; the
\* values whose UTC day the calendar gives have that day as their key
KeysAreDays ==
    \A i \in 1..Len(dateInputs) :
        /\ ~dayKeys.keys[i].err
        /\ (dayKeys.keys[i] = EmptyKey) <=> ~Parses(dateInputs[i])
        /\ <<dateInputs[i]>> \in ParsedTimestamps =>
                Day(dayKeys.keys[i].y, dayKeys.keys[i].m, dayKeys.keys[i].d)
                    = UtcDay(<<dateInputs[i]>>)

C15_WitnessNoKey ==
    /\ DatesFormatted
    /\ dateInputs[1] = StrTs("not-a-date")[1]
    /\ dayKeys.keys[1] = EmptyKey


----------------------------------------------------------------------------
(* C16 *)

\* C16: every label of the daily series has data: at each position of the
\* label axis the vector of at least one selected brand is not null.
C16_EveryLabelHasData ==
    SentimentRendered =>
        \A i \in DOMAIN sentimentChart.labels :
            \E k \in 1..Len(sentimentChart.datasets) :
                /\ sentimentChart.datasets[k].label \in SelectedSet
                /\ i \in DOMAIN sentimentChart.datasets[k].data
                /\ ~sentimentChart.datasets[k].data[i].isNull

\* a selected brand has a post with a day and no score next to a post with
\* a score on another day: the axis has the one label of the scored post
C16_Witness ==
    /\ SentimentRendered
    /\ Len(sentimentChart.labels) = 1
    /\ \E brand \in SelectedSet :
        \E j \in 1..Len(ListOf(brand)) :
            LET post == ListOf(brand)[j]
            IN /\ ~HasScore(post)
               /\ HasTimestamp(post) /\ TimestampOf(post) \in ParsedTimestamps
               /\ DayLabel(UtcDay(TimestampOf(post))) # sentimentChart.labels[1]

====
